---- MODULE Spec2Model ----
(***************************************************************************)
(* Solar investment ROI calculator (src/check.py, a Streamlit script).     *)
(*                                                                         *)
(* A Streamlit script runs top to bottom on every user interaction: the    *)
(* widget's on_change / on_click callback runs first, then the whole       *)
(* script with the new widget values.  Each action below is one such       *)
(* interaction: callback plus the complete script run.                     *)
(*                                                                         *)
(* Numbers are exact rationals <<n, d>> (d > 0, lowest terms); the         *)
(* rounding of Python floats is not modelled.                              *)
(*                                                                         *)
(* src/app.py is the earlier single-city version of the same script; its   *)
(* arithmetic is line for line that of check.py's loop body.               *)
(***************************************************************************)
EXTENDS Integers, Sequences, FiniteSets, TLC

VARIABLES
    df,               \* the reference table read by load_data()
    lottie_cache,     \* st.cache_data entry of load_lottie_url
    results_data,     \* st.session_state.results_data
    compare_mode,     \* st.toggle("Compare Mode")
    selected_country, \* st.selectbox("Select Country")
    selected_city,    \* st.selectbox("Select City") (NoneVal in compare mode)
    selected_cities,  \* st.multiselect(...)  (<<>> in single mode)
    system_size_kw,   \* st.number_input("System Size (kW)")
    system_cost_usd,  \* st.number_input("Total System Cost (USD)")
    display_currency, \* st.selectbox("Display Currency")
    page,             \* what the last script run put on the page
    calc,             \* local variables of the last run's calculation block
    prev              \* results_data as it was before the last interaction

vars == <<df, lottie_cache, results_data, compare_mode, selected_country,
          selected_city, selected_cities, system_size_kw, system_cost_usd,
          display_currency, page, calc, prev>>

inputs == <<compare_mode, selected_country, selected_city, selected_cities,
            system_size_kw, system_cost_usd, display_currency>>

-----------------------------------------------------------------------------
(* Exact rational arithmetic standing for Python float arithmetic.         *)

RECURSIVE GCD(_, _)
GCD(a, b) == IF b = 0 THEN a ELSE GCD(b, a % b)

Abs(n) == IF n < 0 THEN -n ELSE n

R(n, d) ==
    LET s == IF d < 0 THEN -1 ELSE 1
        g == GCD(Abs(n), Abs(d))
    IN  <<(s * n) \div g, (s * d) \div g>>

RInt(n) == <<n, 1>>
RMul(a, b) == R(a[1] * b[1], a[2] * b[2])
RSub(a, b) == R(a[1] * b[2] - b[1] * a[2], a[2] * b[2])
RDiv(a, b) == R(a[1] * b[2], a[2] * b[1])
RLt(a, b) == a[1] * b[2] < b[1] * a[2]
RMax(a, b) == IF RLt(a, b) THEN b ELSE a

-----------------------------------------------------------------------------
(* Python / pandas values.                                                 *)

NoneVal == "<None>"
NaN == "<NaN>"

\* pandas ==: a NaN cell equals nothing, itself included.
PdEq(a, b) == a # NaN /\ b # NaN /\ a = b

\* bool(x) of a widget value: None is falsy, a string or float('nan') truthy.
Truthy(x) == x # NoneVal

NoResults == [kind |-> "none"]

-----------------------------------------------------------------------------
(* The reference table (data.csv as read by pd.read_csv).  Latitude and    *)
(* Longitude are read by the map section only and are left out.            *)

Row(country, city, ghi, tariff, itype, ivalue, code, symbol, rate) ==
    [Country |-> country, City |-> city, GHI_Daily |-> ghi,
     Tariff_USD_kWh |-> tariff, Incentive_Type |-> itype,
     Incentive_Value_USD |-> ivalue,
     Policy_Summary |-> "policy of " \o country,
     Local_Currency_Code |-> code, Local_Currency_Symbol |-> symbol,
     USD_to_Local_Rate |-> rate]

\* A table that satisfies the data model: (Country, City) pairs are unique,
\* irradiance, tariff and rate are positive, incentive values non-negative.
\* "Hyderabad" is a city of two countries; "Leh" has near-zero revenue;
\* Karachi's subsidy exceeds the smallest admissible system cost.
ValidTable ==
    << Row("India", "Hyderabad", R(11, 2), R(2, 25), "CAPEX_Subsidy",
           RInt(1000), "INR", "Rs", RInt(83)),
       Row("India", "Delhi", RInt(5), R(1, 10), "Tax_Credit",
           RInt(500), "INR", "Rs", RInt(83)),
       Row("India", "Leh", R(1, 10), R(1, 100000), "CAPEX_Subsidy",
           RInt(0), "INR", "Rs", RInt(83)),
       Row("Pakistan", "Karachi", RInt(6), R(3, 20), "CAPEX_Subsidy",
           RInt(2000), "PKR", "PRs", RInt(280)),
       Row("Pakistan", "Hyderabad", RInt(5), R(1, 20), "Net_Metering",
           RInt(300), "PKR", "PRs", RInt(280)),
       Row("USA", "Phoenix", RInt(6), R(3, 25), "CAPEX_Subsidy",
           RInt(500), "USD", "$", RInt(1)) >>

\* A table pd.read_csv accepts although one City cell is blank (read as NaN).
BlankCityTable ==
    << Row("India", "Hyderabad", R(11, 2), R(2, 25), "CAPEX_Subsidy",
           RInt(1000), "INR", "Rs", RInt(83)),
       Row("India", NaN, RInt(5), R(1, 10), "Tax_Credit",
           RInt(500), "INR", "Rs", RInt(83)),
       Row("India", "Delhi", RInt(5), R(1, 10), "Tax_Credit",
           RInt(500), "INR", "Rs", RInt(83)),
       Row("Pakistan", "Karachi", RInt(6), R(3, 20), "CAPEX_Subsidy",
           RInt(2000), "PKR", "PRs", RInt(280)) >>

load_data == {ValidTable}
load_data_unvalidated == {BlankCityTable}

\* df[df['City'] == name]
RowsWhereCity(t, name) == SelectSeq(t, LAMBDA r : PdEq(r.City, name))

\* df[df['Country'] == country]
RowsWhereCountry(t, country) == SelectSeq(t, LAMBDA r : PdEq(r.Country, country))

Range(s) == {s[i] : i \in 1..Len(s)}

\* df['Country'].unique(): the values in order of first appearance
RECURSIVE Unique(_, _)
Unique(s, seen) ==
    IF s = <<>> THEN <<>>
    ELSE IF Head(s) \in seen THEN Unique(Tail(s), seen)
    ELSE <<Head(s)>> \o Unique(Tail(s), seen \cup {Head(s)})

Countries(t) == Unique([i \in 1..Len(t) |-> t[i].Country], {})

\* cities_in_country = df[df['Country'] == selected_country]['City'].tolist()
cities_in_country(t, country) ==
    LET rows == RowsWhereCountry(t, country)
    IN  [i \in 1..Len(rows) |-> rows[i].City]

-----------------------------------------------------------------------------
(* The ROI calculation block (check.py, "6. ROI CALCULATION").             *)

PERFORMANCE_RATIO == R(3, 4)
RevenueFloor == R(1, 100)
DaysPerYear == RInt(365)

\* cities_to_process and the warning chosen with it
CitiesToProcess(cm, city, cities) ==
    IF cm THEN cities
    ELSE IF Truthy(city) THEN <<city>>
    ELSE <<>>

SelectionWarning(cm, city, cities) ==
    IF cm THEN (IF cities = <<>>
                THEN "Please select at least one city in Compare Mode."
                ELSE "none")
    ELSE IF Truthy(city) THEN "none"
    ELSE "Please select a city."

\* country_data = df[df['Country'] == selected_country].iloc[0]
country_data(t, country) == RowsWhereCountry(t, country)[1]

\* the local rate used whatever the display currency
DisplayRate_AlwaysLocal(cur, local_rate) == local_rate

\* display_rate and display_symbol
DisplayRate(cur, local_rate) ==
    IF cur = "USD" THEN RInt(1) ELSE local_rate

DisplaySymbol(cur, local_symbol) ==
    IF cur = "USD" THEN "$" ELSE local_symbol

AnnualEnergyKwh(size, ghi) ==
    RMul(RMul(RMul(size, ghi), DaysPerYear), PERFORMANCE_RATIO)

AnnualRevenueUsd(energy, tariff) == RMul(energy, tariff)

\* the incentive subtracted whatever its type
NetSystemCostUsd_AnyType(cost, incentive_type, incentive_value_usd) ==
    RSub(RInt(cost), incentive_value_usd)

NetSystemCostUsd(cost, incentive_type, incentive_value_usd) ==
    IF incentive_type = "CAPEX_Subsidy"
    THEN RSub(RInt(cost), incentive_value_usd)
    ELSE RInt(cost)

\* the division without the max(0.01, ...) guard
PaybackPeriodYears_NoFloor(net_cost, revenue) == RDiv(net_cost, revenue)

PaybackPeriodYears(net_cost, revenue) ==
    RDiv(net_cost, RMax(RevenueFloor, revenue))

ToDisplay(amount_usd, display_rate) == RMul(amount_usd, display_rate)

\* create_pdf: the document, as the values laid out in its four sections
create_pdf(country, city, size, cost, net_cost, revenue, payback, energy, policy, symbol, currency_code) ==
    [kind |-> "bytes",
     title |-> <<city, country>>,
     key_metrics |-> <<payback, net_cost, revenue, currency_code>>,
     assumptions |-> <<city, country, size, cost, currency_code, energy>>,
     policy |-> policy]

NoPdf == [kind |-> "none"]

\* the document created in compare mode too
PdfBytes_Always(cm, doc) == doc

\* pdf_bytes of one loop iteration
PdfBytes(cm, doc) == IF ~cm THEN doc ELSE NoPdf

\* One iteration of "for city_name in cities_to_process" for a city that
\* has a row: the locals it computes and the result_dict it appends.
LoopBody(t, city_name, c) ==
    LET city_data == RowsWhereCity(t, city_name)[1]
        ghi == city_data.GHI_Daily
        tariff == city_data.Tariff_USD_kWh
        incentive_type == city_data.Incentive_Type
        incentive_value_usd == city_data.Incentive_Value_USD
        policy_summary == city_data.Policy_Summary
        annual_energy_kwh == AnnualEnergyKwh(c.size, ghi)
        annual_revenue_usd == AnnualRevenueUsd(annual_energy_kwh, tariff)
        net_system_cost_usd ==
            NetSystemCostUsd(c.cost, incentive_type, incentive_value_usd)
        payback_period_years ==
            PaybackPeriodYears(net_system_cost_usd, annual_revenue_usd)
        display_cost == ToDisplay(RInt(c.cost), c.display_rate)
        display_net_cost == ToDisplay(net_system_cost_usd, c.display_rate)
        display_revenue == ToDisplay(annual_revenue_usd, c.display_rate)
        pdf_bytes ==
            PdfBytes(c.compare_mode,
                     create_pdf(c.country, city_name, c.size, display_cost,
                                display_net_cost, display_revenue,
                                payback_period_years, annual_energy_kwh,
                                policy_summary, c.display_symbol,
                                c.display_currency))
    IN  [locals |->
            [city_name |-> city_name,
             city_data |-> city_data,
             annual_energy_kwh |-> annual_energy_kwh,
             annual_revenue_usd |-> annual_revenue_usd,
             net_system_cost_usd |-> net_system_cost_usd,
             payback_period_years |-> payback_period_years],
         result_dict |->
            [country |-> c.country,
             city |-> city_name,
             payback |-> payback_period_years,
             net_cost |-> display_net_cost,
             revenue |-> display_revenue,
             energy |-> annual_energy_kwh,
             pdf_bytes |-> pdf_bytes,
             file_name |-> <<"Solar_Report", c.country, city_name, ".pdf">>,
             incentive_value |-> ToDisplay(incentive_value_usd, c.display_rate),
             incentive_type |-> incentive_type,
             ghi |-> ghi,
             tariff |-> ToDisplay(tariff, c.display_rate),
             size |-> c.size,
             cost |-> display_cost,
             ratio |-> PERFORMANCE_RATIO,
             symbol |-> c.display_symbol,
             currency_code |-> c.display_currency]]

\* the result put first instead of last
AppendResult_Front(all_results, result_dict) == <<result_dict>> \o all_results

\* all_results.append(result_dict)
AppendResult(all_results, result_dict) == Append(all_results, result_dict)

\* The loop.  df[...].iloc[0] raises IndexError when no row matches; the
\* exception leaves the loop and the script run.
RECURSIVE ProcessCities(_, _, _, _)
ProcessCities(t, todo, c, acc) ==
    IF todo = <<>> THEN [raised |-> FALSE, all_results |-> acc.all_results,
                         iterations |-> acc.iterations]
    ELSE IF RowsWhereCity(t, Head(todo)) = <<>>
    THEN [raised |-> TRUE, all_results |-> acc.all_results,
          iterations |-> acc.iterations]
    ELSE LET it == LoopBody(t, Head(todo), c)
         IN  ProcessCities(t, Tail(todo), c,
                 [all_results |-> AppendResult(acc.all_results, it.result_dict),
                  iterations |-> Append(acc.iterations, it.locals)])

\* the save without the "if all_results" guard in compare mode
SaveResults_Unguarded(old, cm, all_results) ==
    IF cm THEN [kind |-> "list", value |-> all_results]
    ELSE IF all_results # <<>> THEN [kind |-> "dict", value |-> all_results[1]]
    ELSE old

\* "Save results to session state"
SaveResults(old, cm, all_results) ==
    IF all_results # <<>>
    THEN IF cm THEN [kind |-> "list", value |-> all_results]
         ELSE [kind |-> "dict", value |-> all_results[1]]
    ELSE old

\* a callback that leaves the stored result in place
clear_results_Keep(old) == old

\* clear_results(): st.session_state.results_data = None
clear_results(old) == NoResults

-----------------------------------------------------------------------------
(* The display section (check.py, "7. DISPLAY RESULTS").                   *)

NoView == [kind |-> "none"]

\* the fraction without the max(1.0, ...) clamp
ProgressFraction_NoClamp(payback) == RDiv(RInt(1), payback)

\* st.progress(1.0 / max(1.0, res['payback']))
ProgressFraction(payback) == RDiv(RInt(1), RMax(RInt(1), payback))

\* One row of df_display_formatted
TableRow(r) ==
    [city |-> r.city, payback |-> r.payback, net_cost |-> r.net_cost,
     revenue |-> r.revenue, energy |-> r.energy]

\* What section 7 renders: dispatch on the type of results_data (a list, a
\* dict), None and the empty list being falsy; size is the current
\* system_size_kw, btn the value of calculate_button.
DisplayResults(res, size, btn) ==
    IF res.kind = "list" /\ res.value # <<>>
    THEN [kind |-> "table", based_on_size |-> size,
          symbol |-> res.value[1].symbol,
          rows |-> [i \in 1..Len(res.value) |-> TableRow(res.value[i])]]
    ELSE IF res.kind = "dict"
    THEN [kind |-> "single", city |-> res.value.city,
          country |-> res.value.country, payback |-> res.value.payback,
          progress |-> ProgressFraction(res.value.payback),
          net_cost |-> res.value.net_cost, revenue |-> res.value.revenue,
          energy |-> res.value.energy, symbol |-> res.value.symbol,
          currency_code |-> res.value.currency_code,
          download |-> res.value.pdf_bytes, file_name |-> res.value.file_name]
    ELSE IF ~btn THEN [kind |-> "info"]
    ELSE NoView

-----------------------------------------------------------------------------
(* One script run.                                                         *)

MaxSelect == 2      \* most cities picked in the multiselect

DefaultSize == RInt(5)          \* number_input value=5.0
DefaultCost == 6000             \* number_input value=6000
MinCost == 1000                 \* number_input min_value=1000
Sizes == {RInt(1), RInt(5)}     \* min_value=1.0, step=0.5
Costs == {MinCost, DefaultCost}

\* What requests.get / r.json() can do on a cache miss; a cached value is
\* returned without a request.
FetchOutcomes(cache) ==
    IF cache = "miss" THEN {"ok", "non200", "raise"} ELSE {"cached"}

\* load_lottie_url under st.cache_data: the value cached after the call
\* ("json" a parsed animation, "null" a cached None); an exception caches
\* nothing.
load_lottie_url(cache, f) ==
    CASE f = "cached" -> cache
      [] f = "ok"     -> "json"
      [] f = "non200" -> "null"
      [] OTHER        -> "miss"

NoCalc == [ran |-> FALSE, cities_to_process |-> <<>>, display_rate |-> RInt(1),
           iterations |-> <<>>, all_results |-> <<>>]

FirstOrNone(s) == IF s = <<>> THEN NoneVal ELSE s[1]

\* The script from top to bottom with the widget values given; res0 is
\* results_data after the callback, btn the value of calculate_button.
ScriptRun(trig, f, cm, country, city, cities, size, cost, cur, res0, btn, prior) ==
    LET cache == load_lottie_url(lottie_cache, f)
        sidebar_raises ==
            \/ ~cm /\ Truthy(city) /\ RowsWhereCity(df, city) = <<>>
            \/ RowsWhereCountry(df, country) = <<>>
    IN
    /\ df' = df
    /\ prev' = prior
    /\ lottie_cache' = cache
    /\ IF f = "raise"
       THEN \* line 85 raises: nothing below it is rendered
            /\ page' = [trigger |-> trig, stage |-> "none",
                        error |-> "ConnectionError", warning |-> "none",
                        toast |-> FALSE, lottie |-> FALSE, shown |-> NoView]
            /\ compare_mode' = FALSE
            /\ selected_country' = Countries(df)[1]
            /\ selected_city' = FirstOrNone(cities_in_country(df, Countries(df)[1]))
            /\ selected_cities' = <<>>
            /\ system_size_kw' = DefaultSize
            /\ system_cost_usd' = DefaultCost
            /\ display_currency' = "USD"
            /\ results_data' = res0
            /\ calc' = NoCalc
       ELSE IF sidebar_raises
       THEN \* line 118 or 123 raises IndexError: the widgets below are
            \* not rendered and lose their values
            /\ page' = [trigger |-> trig, stage |-> "city",
                        error |-> "IndexError", warning |-> "none",
                        toast |-> FALSE, lottie |-> cache = "json",
                        shown |-> NoView]
            /\ compare_mode' = cm
            /\ selected_country' = country
            /\ selected_city' = city
            /\ selected_cities' = cities
            /\ system_size_kw' = DefaultSize
            /\ system_cost_usd' = DefaultCost
            /\ display_currency' = "USD"
            /\ results_data' = res0
            /\ calc' = NoCalc
       ELSE
            /\ compare_mode' = cm
            /\ selected_country' = country
            /\ selected_city' = city
            /\ selected_cities' = cities
            /\ system_size_kw' = size
            /\ system_cost_usd' = cost
            /\ display_currency' = cur
            /\ IF ~btn
               THEN /\ page' = [trigger |-> trig, stage |-> "full",
                                error |-> "none", warning |-> "none",
                                toast |-> FALSE, lottie |-> cache = "json",
                                shown |-> DisplayResults(res0, size, FALSE)]
                    /\ results_data' = res0
                    /\ calc' = NoCalc
               ELSE LET local == country_data(df, country)
                        todo == CitiesToProcess(cm, city, cities)
                        c == [compare_mode |-> cm, country |-> country,
                              size |-> size, cost |-> cost,
                              display_rate |->
                                  DisplayRate(cur, local.USD_to_Local_Rate),
                              display_symbol |->
                                  DisplaySymbol(cur, local.Local_Currency_Symbol),
                              display_currency |-> cur]
                        loop == ProcessCities(df, todo, c,
                                    [all_results |-> <<>>, iterations |-> <<>>])
                        saved == IF loop.raised THEN res0
                                 ELSE SaveResults(res0, cm, loop.all_results)
                    IN  /\ calc' = [ran |-> TRUE, cities_to_process |-> todo,
                                    display_rate |-> c.display_rate,
                                    iterations |-> loop.iterations,
                                    all_results |-> loop.all_results]
                        /\ results_data' = saved
                        /\ page' = [trigger |-> trig, stage |-> "full",
                                    error |-> IF loop.raised THEN "IndexError"
                                              ELSE "none",
                                    warning |-> SelectionWarning(cm, city, cities),
                                    toast |-> ~loop.raised,
                                    lottie |-> cache = "json",
                                    shown |-> IF loop.raised THEN NoView
                                              ELSE DisplayResults(results_data',
                                                                  size, TRUE)]

\* The multiselect's possible values: distinct options in picking order.
Selections(options) ==
    {s \in UNION {[1..n -> Range(options)] : n \in 0..MaxSelect} :
        \A i, j \in 1..Len(s) : i # j => s[i] # s[j]}

LocalCode(t, country) == country_data(t, country).Local_Currency_Code

-----------------------------------------------------------------------------
(* The interactions.                                                       *)

\* A browser opens the app: a new session, every widget at its default.
PageLoad ==
    \E f \in FetchOutcomes(lottie_cache) :
        LET country == Countries(df)[1]
        IN  ScriptRun("load", f, FALSE, country,
                      FirstOrNone(cities_in_country(df, country)), <<>>,
                      DefaultSize, DefaultCost, "USD", NoResults, FALSE,
                      NoResults)

\* st.toggle("Compare Mode", on_change=clear_results).  The city widget of
\* the other mode is created anew, at its default.
ToggleCompare ==
    /\ page.stage \in {"city", "full"}
    /\ \E f \in FetchOutcomes(lottie_cache) :
        ScriptRun("compare", f, ~compare_mode, selected_country,
                  IF compare_mode
                  THEN FirstOrNone(cities_in_country(df, selected_country))
                  ELSE NoneVal,
                  <<>>, system_size_kw, system_cost_usd, display_currency,
                  clear_results(results_data), FALSE, results_data)

\* st.selectbox("Select Country", ..., on_change=clear_results).  Widgets
\* whose option list changes with the country start again at their default.
SelectCountry ==
    /\ page.stage \in {"city", "full"}
    /\ \E f \in FetchOutcomes(lottie_cache) :
       \E country \in Range(Countries(df)) \ {selected_country} :
        LET same == cities_in_country(df, country)
                       = cities_in_country(df, selected_country)
        IN  ScriptRun("country", f, compare_mode, country,
                  IF compare_mode THEN NoneVal
                  ELSE IF same THEN selected_city
                  ELSE FirstOrNone(cities_in_country(df, country)),
                  IF same THEN selected_cities ELSE <<>>,
                  system_size_kw, system_cost_usd,
                  IF LocalCode(df, country) = LocalCode(df, selected_country)
                  THEN display_currency ELSE "USD",
                  clear_results(results_data), FALSE, results_data)

\* st.selectbox("Select City", cities_in_country, on_change=clear_results)
SelectCity ==
    /\ page.stage \in {"city", "full"}
    /\ ~compare_mode
    /\ \E f \in FetchOutcomes(lottie_cache) :
       \E city \in Range(cities_in_country(df, selected_country)) \ {selected_city} :
        ScriptRun("city", f, compare_mode, selected_country, city, <<>>,
                  system_size_kw, system_cost_usd, display_currency,
                  clear_results(results_data), FALSE, results_data)

\* st.multiselect("Select Cities to Compare", ..., on_change=clear_results)
SelectCities ==
    /\ page.stage \in {"city", "full"}
    /\ compare_mode
    /\ \E f \in FetchOutcomes(lottie_cache) :
       \E cities \in Selections(cities_in_country(df, selected_country))
                        \ {selected_cities} :
        ScriptRun("cities", f, compare_mode, selected_country, NoneVal, cities,
                  system_size_kw, system_cost_usd, display_currency,
                  clear_results(results_data), FALSE, results_data)

\* st.number_input("System Size (kW)", ..., on_change=clear_results)
SetSize ==
    /\ page.stage = "full"
    /\ \E f \in FetchOutcomes(lottie_cache) :
       \E size \in Sizes \ {system_size_kw} :
        ScriptRun("size", f, compare_mode, selected_country, selected_city,
                  selected_cities, size, system_cost_usd, display_currency,
                  clear_results(results_data), FALSE, results_data)

\* st.number_input("Total System Cost (USD)", ..., on_change=clear_results)
SetCost ==
    /\ page.stage = "full"
    /\ \E f \in FetchOutcomes(lottie_cache) :
       \E cost \in Costs \ {system_cost_usd} :
        ScriptRun("cost", f, compare_mode, selected_country, selected_city,
                  selected_cities, system_size_kw, cost, display_currency,
                  clear_results(results_data), FALSE, results_data)

\* st.selectbox("Display Currency", ["USD", local_code], on_change=clear_results)
SetCurrency ==
    /\ page.stage = "full"
    /\ \E f \in FetchOutcomes(lottie_cache) :
       \E cur \in {"USD", LocalCode(df, selected_country)} \ {display_currency} :
        ScriptRun("currency", f, compare_mode, selected_country, selected_city,
                  selected_cities, system_size_kw, system_cost_usd, cur,
                  clear_results(results_data), FALSE, results_data)

\* st.button("Calculate ROI"): no callback, calculate_button is True
Calculate ==
    /\ page.stage = "full"
    /\ \E f \in FetchOutcomes(lottie_cache) :
        ScriptRun("calculate", f, compare_mode, selected_country, selected_city,
                  selected_cities, system_size_kw, system_cost_usd,
                  display_currency, results_data, TRUE, results_data)

\* st.button("Reset / Clear Results", on_click=clear_results)
Reset ==
    /\ page.stage = "full"
    /\ \E f \in FetchOutcomes(lottie_cache) :
        ScriptRun("reset", f, compare_mode, selected_country, selected_city,
                  selected_cities, system_size_kw, system_cost_usd,
                  display_currency, clear_results(results_data), FALSE,
                  results_data)

\* The server has started; no browser has opened the app yet.
InitWith(tables) ==
    /\ df \in tables
    /\ lottie_cache = "miss"
    /\ results_data = NoResults
    /\ compare_mode = FALSE
    /\ selected_country = Countries(df)[1]
    /\ selected_city = FirstOrNone(cities_in_country(df, Countries(df)[1]))
    /\ selected_cities = <<>>
    /\ system_size_kw = DefaultSize
    /\ system_cost_usd = DefaultCost
    /\ display_currency = "USD"
    /\ page = [trigger |-> "none", stage |-> "none", error |-> "none",
               warning |-> "none", toast |-> FALSE, lottie |-> FALSE,
               shown |-> NoView]
    /\ calc = NoCalc
    /\ prev = NoResults

Init == InitWith(load_data)

Next ==
    \/ PageLoad
    \/ ToggleCompare
    \/ SelectCountry
    \/ SelectCity
    \/ SelectCities
    \/ SetSize
    \/ SetCost
    \/ SetCurrency
    \/ Calculate
    \/ Reset

Spec == Init /\ [][Next]_vars

\* The same program started on a table with a blank City cell.
InitInvalidRow == InitWith(load_data_unvalidated)

SpecInvalidRow == InitInvalidRow /\ [][Next]_vars

-----------------------------------------------------------------------------
(* Properties.                                                             *)

Calculated == page.trigger = "calculate" /\ calc.ran

Iterations == 1..Len(calc.iterations)

\* a * b = c over exact rationals, by cross-multiplication
ProductIs(a, b, c) == a[1] * b[1] * c[2] = c[1] * a[2] * b[2]

\* C1: after a Calculate, every location record read has
\* netCostUsd = costUsd - incentiveValueUsd when its incentive type is the
\* CAPEX subsidy, and netCostUsd = costUsd for any other incentive type.
C1_NetCost ==
    Calculated =>
        \A i \in Iterations :
            LET it == calc.iterations[i]
                row == it.city_data
                net == it.net_system_cost_usd
                iv == row.Incentive_Value_USD
            IN  IF row.Incentive_Type = "CAPEX_Subsidy"
                THEN net[1] * iv[2] = (system_cost_usd * iv[2] - iv[1]) * net[2]
                ELSE net = <<system_cost_usd, 1>>

\* A comparison that read a subsidised record and a record whose non-zero
\* incentive is of another type.
C1_Witness ==
    /\ Calculated
    /\ \E i, j \in Iterations :
        /\ calc.iterations[i].city_data.Incentive_Type = "CAPEX_Subsidy"
        /\ calc.iterations[i].city_data.Incentive_Value_USD[1] > 0
        /\ calc.iterations[j].city_data.Incentive_Type # "CAPEX_Subsidy"
        /\ calc.iterations[j].city_data.Incentive_Value_USD[1] > 0

\* sizeKw * irradiance * 365 * 0.75 * tariff, written out
RevenueOf(size, row) ==
    R(size[1] * row.GHI_Daily[1] * 365 * 3 * row.Tariff_USD_kWh[1],
      size[2] * row.GHI_Daily[2] * 4 * row.Tariff_USD_kWh[2])

\* C2: every computed paybackYears is netCostUsd / max(0.01, annualRevenueUsd)
\* with annualRevenueUsd = sizeKw * irradiance * 365 * 0.75 * tariff, and is
\* not negative when netCostUsd >= 0.
C2_Payback ==
    Calculated =>
        \A i \in Iterations :
            LET it == calc.iterations[i]
                rev == RevenueOf(system_size_kw, it.city_data)
                den == IF rev[1] * 100 < rev[2] THEN <<1, 100>> ELSE rev
                pay == it.payback_period_years
                net == it.net_system_cost_usd
            IN  /\ it.annual_revenue_usd = rev
                /\ ProductIs(pay, den, net)
                /\ (net[1] >= 0 => pay[1] >= 0)
                /\ calc.all_results[i].payback = pay

\* A calculation whose revenue is below the 0.01 floor, with a positive cost.
C2_Witness ==
    /\ Calculated
    /\ \E i \in Iterations :
        LET it == calc.iterations[i]
        IN  /\ RLt(it.annual_revenue_usd, RevenueFloor)
            /\ it.net_system_cost_usd[1] > 0
            /\ it.payback_period_years = <<system_cost_usd * 100, 1>>

\* The record df[df['City'] == name].iloc[0] reads for a selected city
RowRead(name) == RowsWhereCity(df, name)[1]

\* The i-th stored result is the one computed for the i-th selected city.
ResultFor(r, i) ==
    /\ r = calc.all_results[i]
    /\ r.city = selected_cities[i]
    /\ r.country = selected_country
    /\ r.ghi = RowRead(selected_cities[i]).GHI_Daily
    /\ r.incentive_type = RowRead(selected_cities[i]).Incentive_Type
    /\ r.payback = calc.iterations[i].payback_period_years
    /\ calc.iterations[i].city_data = RowRead(selected_cities[i])

\* C3 as stated: in compare mode a Calculate with n selected locations
\* stores a sequence of exactly n results, the i-th computed for the i-th
\* selected location.
C3_StoresNResults ==
    (Calculated /\ compare_mode) =>
        /\ results_data.kind = "list"
        /\ Len(results_data.value) = Len(selected_cities)
        /\ \A i \in 1..Len(selected_cities) :
               ResultFor(results_data.value[i], i)

\* C3 as amended: for n >= 1 the stored sequence has exactly n results in
\* selection order; for n = 0 the computed sequence is empty and nothing is
\* stored.
C3_OrderAndCount ==
    (Calculated /\ compare_mode) =>
        /\ Len(calc.all_results) = Len(selected_cities)
        /\ IF selected_cities # <<>>
           THEN /\ results_data.kind = "list"
                /\ Len(results_data.value) = Len(selected_cities)
                /\ \A i \in 1..Len(selected_cities) :
                       ResultFor(results_data.value[i], i)
           ELSE results_data = prev

C3_Witness ==
    /\ Calculated
    /\ compare_mode
    /\ Len(selected_cities) >= 2
    /\ results_data.kind = "list"
    /\ results_data.value[1].city = selected_cities[1]
    /\ results_data.value[2].city = selected_cities[2]
    /\ results_data.value[1].payback # results_data.value[2].payback

NothingSelected ==
    \/ compare_mode /\ selected_cities = <<>>
    \/ ~compare_mode /\ ~Truthy(selected_city)

\* C4: a Calculate with nothing selected computes nothing, shows a warning
\* and no error, produces an empty result sequence and leaves the stored
\* result as it was (or absent).
C4_NothingSelected ==
    (page.trigger = "calculate" /\ NothingSelected) =>
        /\ calc.ran
        /\ calc.iterations = <<>>
        /\ calc.all_results = <<>>
        /\ page.warning # "none"
        /\ page.error = "none"
        /\ page.stage = "full"
        /\ results_data \in {prev, NoResults}

C4_Witness ==
    /\ page.trigger = "calculate"
    /\ compare_mode
    /\ selected_cities = <<>>
    /\ page.warning = "Please select at least one city in Compare Mode."
    /\ results_data = NoResults

\* The selected keys that have no row in the reference table
Unmatched == {i \in 1..Len(CitiesToProcess(compare_mode, selected_city, selected_cities)) :
                 RowsWhereCity(df, CitiesToProcess(compare_mode, selected_city,
                                                   selected_cities)[i]) = <<>>}

\* C5: when a selected key has no row, Calculate shows a warning (not an
\* error) and, in compare mode, stores results for the remaining cities.
C5_MissingRowSkipped ==
    (page.trigger = "calculate" /\ Unmatched # {}) =>
        /\ page.warning # "none"
        /\ page.error = "none"
        /\ compare_mode =>
              Len(calc.all_results) = Len(selected_cities) - Cardinality(Unmatched)

\* C6: with a display currency other than USD, every displayed amount is the
\* USD amount times the rate of the record the result was computed from,
\* and symbol and code are that record's.
C6_LocalRateOfRecord ==
    (Calculated /\ display_currency # "USD") =>
        \A i \in Iterations :
            LET it == calc.iterations[i]
                row == it.city_data
                r == calc.all_results[i]
            IN  /\ r.cost = RMul(<<system_cost_usd, 1>>, row.USD_to_Local_Rate)
                /\ r.net_cost = RMul(it.net_system_cost_usd, row.USD_to_Local_Rate)
                /\ r.revenue = RMul(it.annual_revenue_usd, row.USD_to_Local_Rate)
                /\ r.symbol = row.Local_Currency_Symbol
                /\ r.currency_code = row.Local_Currency_Code

\* C7: with USD as display currency every displayed amount equals the USD
\* amount, the rate is 1.0 and the symbol "$", whatever the location's rate.
C7_UsdIdentity ==
    (Calculated /\ display_currency = "USD") =>
        /\ calc.display_rate = <<1, 1>>
        /\ \A i \in Iterations :
            LET it == calc.iterations[i]
                r == calc.all_results[i]
            IN  /\ r.cost = <<system_cost_usd, 1>>
                /\ r.net_cost = it.net_system_cost_usd
                /\ r.revenue = it.annual_revenue_usd
                /\ r.symbol = "$"
                /\ r.currency_code = "USD"

\* A USD calculation for a location whose own rate is not 1.
C7_Witness ==
    /\ Calculated
    /\ display_currency = "USD"
    /\ results_data.kind = "dict"
    /\ calc.iterations[1].city_data.USD_to_Local_Rate # <<1, 1>>
    /\ results_data.value.cost = <<system_cost_usd, 1>>

\* C8: a stored batch result has no document in any element, and a stored
\* single result always carries a document.
C8_DocumentOnlySingle ==
    /\ results_data.kind = "list" =>
          \A i \in 1..Len(results_data.value) :
              results_data.value[i].pdf_bytes.kind = "none"
    /\ results_data.kind = "dict" =>
          results_data.value.pdf_bytes.kind = "bytes"

C8_Witness ==
    /\ results_data.kind = "list"
    /\ Len(results_data.value) >= 2
    /\ prev.kind = "none"

\* C9: a Reset leaves no stored result and does not change the inputs.
C9_ResetClears ==
    [][Reset => (results_data' = NoResults /\ inputs' = inputs)]_vars

\* A Reset that found a result stored.
C9_Witness ==
    /\ page.trigger = "reset"
    /\ prev.kind # "none"
    /\ results_data = NoResults

\* C10: whatever the animation fetch does, the script run goes on to the
\* end and shows no error.
C10_FetchAbsorbed ==
    page.trigger # "none" => (page.stage = "full" /\ page.error = "none")

\* C11: the record a Calculate reads for a selected city is the row of the
\* selected country with that city name, also when another country has a
\* city of the same name.
C11_KeyedByCountryAndCity ==
    Calculated =>
        \A i \in Iterations :
            LET it == calc.iterations[i]
            IN  /\ it.city_data.City = it.city_name
                /\ it.city_data.Country = selected_country

\* C12: for every single result on display the progress-bar fraction
\* 1.0 / max(1.0, payback) lies in (0, 1], for very large payback values
\* and for zero or negative ones.
C12_ProgressInRange ==
    page.shown.kind = "single" =>
        /\ page.shown.payback = results_data.value.payback
        /\ page.shown.progress[1] > 0
        /\ page.shown.progress[1] <= page.shown.progress[2]
        /\ IF RLt(<<1, 1>>, page.shown.payback)
           THEN ProductIs(page.shown.progress, page.shown.payback, <<1, 1>>)
           ELSE page.shown.progress = <<1, 1>>

\* A single result on display whose revenue was floored at 0.01.
C12_Witness ==
    /\ page.shown.kind = "single"
    /\ Calculated
    /\ RLt(calc.iterations[1].annual_revenue_usd, RevenueFloor)
    /\ page.shown.payback = <<system_cost_usd * 100, 1>>
    /\ page.shown.progress = <<1, system_cost_usd * 100>>

\* A single result on display whose payback is zero or negative.
C12_WitnessNonPositive ==
    /\ page.shown.kind = "single"
    /\ page.shown.payback[1] <= 0
    /\ page.shown.progress = <<1, 1>>

\* The display rate a calculation with the current inputs uses
CurrentRate ==
    IF display_currency = "USD" THEN <<1, 1>>
    ELSE country_data(df, selected_country).USD_to_Local_Rate

\* r is what the current size, cost, currency and country give for city
FromCurrentInputs(r, city) ==
    /\ r.city = city
    /\ r.country = selected_country
    /\ r.size = system_size_kw
    /\ r.currency_code = display_currency
    /\ ProductIs(<<system_cost_usd, 1>>, CurrentRate, r.cost)
    /\ r.ghi = RowRead(city).GHI_Daily
    /\ r.energy = R(system_size_kw[1] * r.ghi[1] * 365 * 3,
                    system_size_kw[2] * r.ghi[2] * 4)

\* C13: the stored result is absent or was computed from the current input
\* values; a stored list exists only in compare mode, a stored dict only
\* outside it.
C13_NoStaleResult ==
    /\ results_data.kind = "dict" =>
          /\ ~compare_mode
          /\ FromCurrentInputs(results_data.value, selected_city)
    /\ results_data.kind = "list" =>
          /\ compare_mode
          /\ Len(results_data.value) = Len(selected_cities)
          /\ \A i \in 1..Len(selected_cities) :
                 FromCurrentInputs(results_data.value[i], selected_cities[i])
    /\ page.shown.kind = "table" => page.shown.based_on_size = results_data.value[1].size
    /\ page.shown.kind \in {"table", "single"} <=> results_data.kind # "none"

\* A batch result still stored after the size, the cost, the currency and
\* the country have each been changed from their defaults.
C13_Witness ==
    /\ results_data.kind = "list"
    /\ compare_mode
    /\ Len(selected_cities) = 2
    /\ system_size_kw # DefaultSize
    /\ system_cost_usd # DefaultCost
    /\ display_currency # "USD"
    /\ selected_country # Countries(df)[1]
    /\ page.trigger = "calculate"

====
